---- MODULE Spec2Model ----
(***************************************************************************)
(* Falling-sand simulation (src/main.rs): an input thread that turns       *)
(* terminal events into Signals, a simulation thread that drains the       *)
(* signals, runs one row-major update pass over the grid, clears the       *)
(* moved marks and publishes a snapshot, and the main thread that draws    *)
(* the snapshots it receives.                                              *)
(***************************************************************************)
EXTENDS Integers, Sequences, FiniteSets, TLC

(* ------------------------------ bounds -------------------------------- *)
\* terminal height and width the grid is built from (main.rs:111-115)
Rows == 5
Cols == 5
\* signals the input thread sends in one run
MaxEvents == 2
\* signals waiting in the event channel at one time
MaxQueue == 2
\* snapshots waiting in the render channel at one time
MaxRender == 2

(* ----------------------------- constants ------------------------------ *)
\* the rows the floor guard subtracts from the height of the grid
\* (row < grid.column_len() - 3, main.rs:156)
FrozenRows == 3

VARIABLES
    nrows,          \* grid.column_len()
    ncols,          \* grid.row_len()
    grid,           \* Array2D<(bool, bool)>: <<occupied, moved this tick>>
    sand_spawner,   \* Option<(usize, usize)>: <<>> or << <<row, col>> >>
    eventQ,         \* event channel, oldest signal first
    renderQ,        \* render channel, oldest snapshot first
    pc,             \* position of the simulation thread
    inputAlive,     \* the input thread has not returned
    mainpc,         \* position of the main (render) thread
    sent,           \* number of signals sent so far
    moves,          \* the movement writes of the last update pass
    spawned,        \* the cells the last update pass spawned a particle in
    spawner0,       \* sand_spawner when the current iteration began
    drained,        \* the signals the current iteration has consumed, in order
    drawn           \* the snapshot the main thread drew last

vars == <<nrows, ncols, grid, sand_spawner, eventQ, renderQ, pc, inputAlive,
          mainpc, sent, moves, spawned, spawner0, drained, drawn>>

(* ------------------------------ Option -------------------------------- *)
None == <<>>
Some(x) == <<x>>
IsSome(o) == o # <<>>
Unwrap(o) == o[1]

(* ------------------------------- grid --------------------------------- *)
Cells(nr, nc) == (0 .. nr - 1) \X (0 .. nc - 1)

\* Array2D::filled_with((false, false), rows, columns)
EmptyGrid(nr, nc) == [p \in Cells(nr, nc) |-> <<FALSE, FALSE>>]

\* a get that checks the flat index alone, so a column past the end of a
\* row reads the next row
GetFlat(g, nr, nc, row, col) ==
    LET k == row * nc + col
    IN  IF k >= 0 /\ k < nr * nc
        THEN Some(g[<<k \div nc, k % nc>>]) ELSE None

\* Array2D::get: the cell, or None outside the grid
Get(g, nr, nc, row, col) ==
    IF row >= 0 /\ row < nr /\ col >= 0 /\ col < nc
    THEN Some(g[<<row, col>>]) ELSE None

\* grid[(row, col)] = v
SetCell(g, row, col, v) == [g EXCEPT ![<<row, col>>] = v]

Occupied(g) == {p \in DOMAIN g : g[p][1]}
Marked(g) == {p \in DOMAIN g : g[p][2]}

(* ------------------------------ signals ------------------------------- *)
Click(row, col) == [kind |-> "Click", row |-> row, col |-> col]
Moved(row, col) == [kind |-> "Moved", row |-> row, col |-> col]
Resize(x, y) == [kind |-> "Resize", row |-> x, col |-> y]
Break == [kind |-> "Break", row |-> 0, col |-> 0]

\* the cells the input thread reports a left button press at: the scenario
\* cell, both top corners, a cell of the bottom two rows, and a coordinate of
\* the terminal that is outside the grid
ClickCoords ==
    {<<0, 2>>, <<0, 0>>, <<0, Cols - 1>>, <<Rows - 2, 2>>, <<Rows, Cols>>}

\* the cells it reports a pointer move to: the cell under the scenario cell,
\* and the coordinate outside the grid
MovedCoords == {<<1, 2>>, <<Rows, Cols>>}

Signals ==
    {Click(p[1], p[2]) : p \in ClickCoords}
        \cup {Moved(p[1], p[2]) : p \in MovedCoords}
        \cup {Resize(Cols, Rows), Break}

\* one signal of each kind, the pointer on the bottom rows or off the grid
OneOfEach ==
    {Click(Rows - 2, 2), Moved(Rows, Cols), Resize(Cols, Rows), Break}

(* --------------------------- event channel ---------------------------- *)
\* a receive that takes the newest signal of the channel
TryRecvNewest(q) == [sig |-> q[Len(q)], rest |-> SubSeq(q, 1, Len(q) - 1)]

\* events.next() on a channel that holds a signal: the oldest one
TryRecv(q) == [sig |-> Head(q), rest |-> Tail(q)]

(* --------------------------- render channel --------------------------- *)
\* a receive that takes the newest snapshot of the channel
RecvNewest(q) == [item |-> q[Len(q)], rest |-> SubSeq(q, 1, Len(q) - 1)]

\* render_rx.recv() on a channel that holds a snapshot: the oldest one
Recv(q) == [item |-> Head(q), rest |-> Tail(q)]

(* --------------------------- emitter control -------------------------- *)
\* a click that relocates an active emitter instead of clearing it
ApplyClickRelocates(sp, row, col) == Some(<<row, col>>)

\* Signal::Click arm
ApplyClick(sp, row, col) == IF sp = None THEN Some(<<row, col>>) ELSE None

\* Signal::Moved arm: sand_spawner.map(|_| (row, col))
ApplyMoved(sp, row, col) == IF IsSome(sp) THEN Some(<<row, col>>) ELSE None

(* ---------------------------- update rule ----------------------------- *)
\* a floor guard that keeps only the last row fixed
FloorGuardLastRow(nr, row) == row < nr - 1

\* a floor guard that is off by one row: row < grid.column_len() - 2
FloorGuardOffByOne(nr, row) == row < nr - 2

\* the floor guard of the movement arms, row < grid.column_len() - 3 on usize:
\* with fewer than 3 rows a wrapping subtraction leaves a difference above
\* every row index (rows come from a u16), so the guard is true
FloorGuard(nr, row) == IF nr >= 3 THEN row < nr - 3 ELSE TRUE

\* grid.column_len() - 3 overflows usize: a build with overflow checks
\* panics there, a build without them wraps
GuardOverflows(nr) == nr < 3

\* a spawn test that takes an inactive emitter for the coordinate (0, 0)
SpawnHereOrOrigin(sp, row, col) ==
    sp = Some(<<row, col>>) \/ (sp = None /\ row = 0 /\ col = 0)

\* a spawn test that applies the floor guard of the movement arms
SpawnHereAboveFloor(sp, row, col) == sp = Some(<<row, col>>) /\ row < Rows - 3

\* the guard of the spawn arm: sand_spawner == Some((row, col))
SpawnHere(sp, row, col) == sp = Some(<<row, col>>)

\* the state an update pass carries from cell to cell: the grid, the moves
\* and spawns made so far, and whether the pass has panicked
PassState(g, mv, spw) ==
    [g |-> g, moves |-> mv, spawned |-> spw, panic |-> FALSE]

\* the pass stopped by a panic
Panicked(st) == [st EXCEPT !.panic = TRUE]

\* a move that forgets to clear the current cell
MoveToKeepsSource(st, row, col, trow, tcol) ==
    PassState(SetCell(st.g, trow, tcol, <<TRUE, TRUE>>),
              st.moves \cup {[from |-> <<row, col>>, to |-> <<trow, tcol>>]},
              st.spawned)

\* a move that forgets to occupy the target cell
MoveToDropsParticle(st, row, col, trow, tcol) ==
    PassState(SetCell(st.g, row, col, <<FALSE, TRUE>>),
              st.moves \cup {[from |-> <<row, col>>, to |-> <<trow, tcol>>]},
              st.spawned)

\* a move that always lands in the current column of the target row
MoveToStraightDown(st, row, col, trow, tcol) ==
    PassState(SetCell(SetCell(st.g, row, col, <<FALSE, TRUE>>),
                      trow, col, <<TRUE, TRUE>>),
              st.moves \cup {[from |-> <<row, col>>, to |-> <<trow, col>>]},
              st.spawned)

\* a move that lands in the target column of the current row
MoveToSameRow(st, row, col, trow, tcol) ==
    PassState(SetCell(SetCell(st.g, row, col, <<FALSE, TRUE>>),
                      row, tcol, <<TRUE, TRUE>>),
              st.moves \cup {[from |-> <<row, col>>, to |-> <<row, tcol>>]},
              st.spawned)

\* clear the current cell, occupy the target, both marked
MoveTo(st, row, col, trow, tcol) ==
    PassState(SetCell(SetCell(st.g, row, col, <<FALSE, TRUE>>),
                      trow, tcol, <<TRUE, TRUE>>),
              st.moves \cup {[from |-> <<row, col>>, to |-> <<trow, tcol>>]},
              st.spawned)

\* the body of the two scan loops for one cell: the pass states it can leave.
\* The patterns of the four movement arms exclude one another, so the guard
\* is evaluated once, by the arm whose pattern matches
UpdateCell(st, sp, nr, nc, row, col) ==
    LET curr == Get(st.g, nr, nc, row, col)
        down == Get(st.g, nr, nc, row + 1, col)
        left == IF col > 0 THEN Get(st.g, nr, nc, row + 1, col - 1) ELSE None
        right == Get(st.g, nr, nc, row + 1, col + 1)
        occ(o) == IsSome(o) /\ Unwrap(o)[1]
        free(o) == IsSome(o) /\ ~Unwrap(o)[1]
        targets ==
            IF curr = Some(<<TRUE, FALSE>>) /\ free(down) THEN {col}
            ELSE IF occ(curr) /\ occ(down) /\ free(left) /\ free(right)
            THEN {col - 1, col + 1}
            ELSE IF occ(curr) /\ occ(down) /\ occ(left) /\ free(right)
            THEN {col + 1}
            ELSE IF occ(curr) /\ occ(down) /\ free(left) /\ occ(right)
            THEN {col - 1}
            ELSE {}
        moved == {MoveTo(st, row, col, row + 1, c) : c \in targets}
    IN  IF curr = Some(<<FALSE, FALSE>>) /\ SpawnHere(sp, row, col)
        THEN {PassState(SetCell(st.g, row, col, <<TRUE, TRUE>>), st.moves,
                        st.spawned \cup {<<row, col>>})}
        ELSE IF targets = {} THEN {st}
        ELSE IF GuardOverflows(nr) THEN {Panicked(st)} \cup moved
        ELSE IF FloorGuard(nr, row) THEN moved
        ELSE {st}

\* for row in 0..column_len { for col in 0..row_len { .. } }, from cell k on
RECURSIVE ScanFrom(_, _, _, _, _)
ScanFrom(k, st, sp, nr, nc) ==
    IF k >= nr * nc \/ st.panic THEN {st}
    ELSE UNION {ScanFrom(k + 1, s2, sp, nr, nc) :
                    s2 \in UpdateCell(st, sp, nr, nc, k \div nc, k % nc)}

\* the outcomes of one whole update pass
UpdateRule(g, sp, nr, nc) == ScanFrom(0, PassState(g, {}, {}), sp, nr, nc)

\* mark-clearing loops that clear nothing
ClearedMarksNoop(g) == g

\* the mark-clearing loops
ClearedMarks(g) == [p \in DOMAIN g |-> <<g[p][1], FALSE>>]

\* From<&Array2D<(bool, bool)>> for RenderInput: one span per cell, styled
\* by the occupied flag alone
RenderInput(g) == [p \in DOMAIN g |-> IF g[p][1] THEN "sand" ELSE "blank"]

(* ------------------------------ threads ------------------------------- *)
SimRunning == pc = "running"
\* event_rx lives in the simulation closure and drops with it
EventRxAlive == SimRunning
\* a render sender that outlives the simulation closure
RenderTxLeaked == TRUE
\* render_tx lives in the simulation closure and drops with it
RenderTxAlive == SimRunning
ProcessAlive == mainpc = "loop"

Init ==
    /\ nrows = Rows
    /\ ncols = Cols
    /\ grid = EmptyGrid(Rows, Cols)
    /\ sand_spawner = None
    /\ eventQ = <<>>
    /\ renderQ = <<>>
    /\ pc = "running"
    /\ inputAlive = TRUE
    /\ mainpc = "loop"
    /\ sent = 0
    /\ moves = {}
    /\ spawned = {}
    /\ spawner0 = None
    /\ drained = <<>>
    /\ drawn = <<>>

\* input thread: read() yields an event that maps to a Signal of S; send
\* succeeds (MaxEvents and MaxQueue cap what the user produces)
InputSendFrom(S) ==
    /\ ProcessAlive /\ inputAlive /\ EventRxAlive
    /\ sent < MaxEvents /\ Len(eventQ) < MaxQueue
    /\ \E s \in S : eventQ' = Append(eventQ, s)
    /\ sent' = sent + 1
    /\ UNCHANGED <<nrows, ncols, grid, sand_spawner, renderQ, pc, inputAlive,
                   mainpc, moves, spawned, spawner0, drained, drawn>>

InputSend == InputSendFrom(Signals)

\* the same with one signal of each kind
InputSendOneOfEach == InputSendFrom(OneOfEach)

\* input thread: read()? fails, or send()? fails because event_rx is gone
InputEnd ==
    /\ ProcessAlive /\ inputAlive
    /\ inputAlive' = FALSE
    /\ UNCHANGED <<nrows, ncols, grid, sand_spawner, eventQ, renderQ, pc,
                   mainpc, sent, moves, spawned, spawner0, drained, drawn>>

\* events.next() yields Signal::Click
DrainClick ==
    /\ ProcessAlive /\ pc = "running"
    /\ eventQ # <<>> /\ TryRecv(eventQ).sig.kind = "Click"
    /\ sand_spawner' = ApplyClick(sand_spawner, TryRecv(eventQ).sig.row,
                                   TryRecv(eventQ).sig.col)
    /\ eventQ' = TryRecv(eventQ).rest
    /\ drained' = Append(drained, TryRecv(eventQ).sig)
    /\ UNCHANGED <<nrows, ncols, grid, renderQ, pc, inputAlive, mainpc, sent,
                   moves, spawned, spawner0, drawn>>

\* events.next() yields Signal::Moved
DrainMoved ==
    /\ ProcessAlive /\ pc = "running"
    /\ eventQ # <<>> /\ TryRecv(eventQ).sig.kind = "Moved"
    /\ sand_spawner' = ApplyMoved(sand_spawner, TryRecv(eventQ).sig.row,
                                   TryRecv(eventQ).sig.col)
    /\ eventQ' = TryRecv(eventQ).rest
    /\ drained' = Append(drained, TryRecv(eventQ).sig)
    /\ UNCHANGED <<nrows, ncols, grid, renderQ, pc, inputAlive, mainpc, sent,
                   moves, spawned, spawner0, drawn>>

\* events.next() yields Signal::Resize: todo!() panics, the thread unwinds
DrainResize ==
    /\ ProcessAlive /\ pc = "running"
    /\ eventQ # <<>> /\ TryRecv(eventQ).sig.kind = "Resize"
    /\ pc' = "panicked"
    /\ eventQ' = TryRecv(eventQ).rest
    /\ drained' = Append(drained, TryRecv(eventQ).sig)
    /\ UNCHANGED <<nrows, ncols, grid, sand_spawner, renderQ, inputAlive,
                   mainpc, sent, moves, spawned, spawner0, drawn>>

\* events.next() yields Signal::Break: break 'main
DrainBreak ==
    /\ ProcessAlive /\ pc = "running"
    /\ eventQ # <<>> /\ TryRecv(eventQ).sig.kind = "Break"
    /\ pc' = "stopped"
    /\ eventQ' = TryRecv(eventQ).rest
    /\ drained' = Append(drained, TryRecv(eventQ).sig)
    /\ UNCHANGED <<nrows, ncols, grid, sand_spawner, renderQ, inputAlive,
                   mainpc, sent, moves, spawned, spawner0, drawn>>

\* the rest of one iteration of 'main, which touches no shared state until
\* its send: events.next() yields None (the channel is empty or
\* disconnected), the update pass runs, the marks are cleared, the thread
\* sleeps out the 16 ms budget and sends the snapshot (MaxRender caps the
\* backlog of the render channel)
Tick ==
    /\ ProcessAlive /\ pc = "running"
    /\ eventQ = <<>>
    /\ Len(renderQ) < MaxRender
    /\ \E st \in UpdateRule(grid, sand_spawner, nrows, ncols) :
          /\ ~st.panic
          /\ grid' = ClearedMarks(st.g)
          /\ moves' = st.moves
          /\ spawned' = st.spawned
          /\ renderQ' = Append(renderQ, RenderInput(ClearedMarks(st.g)))
    /\ spawner0' = sand_spawner
    /\ drained' = <<>>
    /\ UNCHANGED <<nrows, ncols, sand_spawner, eventQ, pc, inputAlive, mainpc,
                   sent, drawn>>

\* the update pass panics on the overflow of its floor guard: the thread
\* unwinds in the middle of the pass and sends nothing
TickPanic ==
    /\ ProcessAlive /\ pc = "running"
    /\ eventQ = <<>>
    /\ \E st \in UpdateRule(grid, sand_spawner, nrows, ncols) :
          /\ st.panic
          /\ grid' = st.g
          /\ moves' = st.moves
          /\ spawned' = st.spawned
    /\ pc' = "panicked"
    /\ UNCHANGED <<nrows, ncols, sand_spawner, eventQ, renderQ, inputAlive,
                   mainpc, sent, spawner0, drained, drawn>>

\* main thread: render_rx.recv() yields a snapshot, which the terminal draws
\* without an I/O error
RenderRecv ==
    /\ mainpc = "loop"
    /\ renderQ # <<>>
    /\ renderQ' = Recv(renderQ).rest
    /\ drawn' = Recv(renderQ).item
    /\ UNCHANGED <<nrows, ncols, grid, sand_spawner, eventQ, pc, inputAlive,
                   mainpc, sent, moves, spawned, spawner0, drained>>

\* main thread: render_rx.recv() fails, the sender is gone: break Ok(())
RenderExit ==
    /\ mainpc = "loop"
    /\ renderQ = <<>> /\ ~RenderTxAlive
    /\ mainpc' = "exited"
    /\ UNCHANGED <<nrows, ncols, grid, sand_spawner, eventQ, renderQ, pc,
                   inputAlive, sent, moves, spawned, spawner0, drained, drawn>>

SimNext == DrainClick \/ DrainMoved \/ DrainResize \/ DrainBreak \/ Tick

RenderNext == RenderRecv \/ RenderExit

Next == InputSend \/ InputEnd \/ SimNext \/ RenderNext

Spec == Init /\ [][Next]_vars

NextOneOfEach == InputSendOneOfEach \/ InputEnd \/ SimNext \/ RenderNext

\* the operating system schedules the simulation thread and the main thread,
\* and the sleep of a tick is finite; the input thread waits on the user
FairSpec ==
    /\ Init /\ [][NextOneOfEach]_vars
    /\ WF_vars(SimNext) /\ WF_vars(RenderNext)

\* the user only clicks on the middle of the top row, and neither quits nor
\* resizes
ClicksOnTop == {Click(0, 2)}

InputSendClicksOnTop == InputSendFrom(ClicksOnTop)

SimNextClicksOnTop == DrainClick \/ Tick

NextClicksOnTop ==
    InputSendClicksOnTop \/ SimNextClicksOnTop \/ RenderRecv

\* the same scheduling as FairSpec, for a session of clicks on the top row
QuiesceSpec ==
    /\ Init /\ [][NextClicksOnTop]_vars
    /\ WF_vars(SimNextClicksOnTop) /\ WF_vars(RenderRecv)

\* a terminal of fewer than 3 rows: the grid takes its height
InitSmall ==
    /\ nrows \in 1..(FrozenRows - 1)
    /\ ncols = Cols
    /\ grid = EmptyGrid(nrows, Cols)
    /\ sand_spawner = None
    /\ eventQ = <<>>
    /\ renderQ = <<>>
    /\ pc = "running"
    /\ inputAlive = TRUE
    /\ mainpc = "loop"
    /\ sent = 0
    /\ moves = {}
    /\ spawned = {}
    /\ spawner0 = None
    /\ drained = <<>>
    /\ drawn = <<>>

\* on such a grid the update pass can panic
SimNextSmall == SimNext \/ TickPanic

NextSmall == InputSend \/ InputEnd \/ SimNextSmall \/ RenderNext

SmallSpec == InitSmall /\ [][NextSmall]_vars

(* ------------------------- steps of the threads ----------------------- *)
\* the step that runs the update pass and publishes its snapshot
PassStep == Len(renderQ') > Len(renderQ)

\* the step in which the drain consumes one signal
ConsumeStep == eventQ # <<>> /\ eventQ' = Tail(eventQ)

\* the emitter the signals of sigs should leave, applied oldest first: a Click
\* toggles it, a Moved relocates it when it is active
RECURSIVE ApplyAll(_, _)
ApplyAll(sp, sigs) ==
    IF sigs = <<>> THEN sp
    ELSE LET s == Head(sigs)
             at == <<s.row, s.col>>
         IN  ApplyAll(IF s.kind = "Click" /\ sp = <<>> THEN <<at>>
                      ELSE IF s.kind = "Click" THEN <<>>
                      ELSE IF s.kind = "Moved" /\ sp # <<>> THEN <<at>>
                      ELSE sp,
                      Tail(sigs))

Below(p) == <<p[1] + 1, p[2]>>

(* ------------------------------- claims ------------------------------- *)
\* C1: within one update pass no cell is written as a movement target more
\* than once, and no particle that a move has placed in a cell is moved out
\* of that cell again by the same pass.
C1_NoDoubleMovement ==
    /\ \A m1, m2 \in moves : m1.to = m2.to => m1 = m2
    /\ \A m1, m2 \in moves : m1.to # m2.from

\* C2 as stated: an update pass raises the number of occupied cells by one
\* exactly when the emitter is active and its cell was empty when the tick
\* began, and leaves the number unchanged otherwise.
C2_MassAtTickStart ==
    [][PassStep =>
        Cardinality(Occupied(grid')) =
            Cardinality(Occupied(grid))
            + (IF /\ IsSome(sand_spawner)
                  /\ Unwrap(sand_spawner) \in DOMAIN grid
                  /\ Unwrap(sand_spawner) \notin Occupied(grid)
               THEN 1 ELSE 0)]_vars

\* C2 amended: an update pass raises the number of occupied cells by one
\* exactly when the emitter is active, its cell was empty when the tick began
\* and no particle moved into that cell before the scan reached it; otherwise
\* the number is unchanged.
C2_MassAtScan ==
    [][PassStep =>
        Cardinality(Occupied(grid')) =
            Cardinality(Occupied(grid))
            + (IF /\ IsSome(sand_spawner)
                  /\ Unwrap(sand_spawner) \in DOMAIN grid
                  /\ Unwrap(sand_spawner) \notin Occupied(grid)
                  /\ \A m \in moves' : m.to # Unwrap(sand_spawner)
               THEN 1 ELSE 0)]_vars

\* a pass that spawned a particle and moved others
C2_Witness == spawned # {} /\ moves # {}

\* C3 as stated: when the particle in the emitter cell moves straight down,
\* the emitter cell is spawned into again by the same pass; from the empty
\* grid with the emitter at (0,2) the first pass leaves (0,2) alone occupied
\* and the second leaves (0,2) and (1,2) occupied.
C3_RespawnSameTick ==
    [][(PassStep /\ IsSome(sand_spawner)) =>
        LET e == Unwrap(sand_spawner)
        IN  /\ (e \in Occupied(grid) /\ [from |-> e, to |-> Below(e)] \in moves')
                => (e \in spawned' /\ e \in Occupied(grid'))
            /\ (e = <<0, 2>> /\ Occupied(grid) = {})
                => Occupied(grid') = {<<0, 2>>}
            /\ (e = <<0, 2>> /\ Occupied(grid) = {<<0, 2>>})
                => Occupied(grid') = {<<0, 2>>, <<1, 2>>}]_vars

\* C3 amended: when the particle in the emitter cell moves straight down, the
\* pass does not spawn into the vacated cell: it is empty when the pass ends;
\* from the empty grid with the emitter at (0,2) the first pass leaves (0,2)
\* alone occupied and the second leaves (1,2) alone occupied.
C3_NoRespawnSameTick ==
    [][(PassStep /\ IsSome(sand_spawner)) =>
        LET e == Unwrap(sand_spawner)
        IN  /\ (e \in Occupied(grid) /\ [from |-> e, to |-> Below(e)] \in moves')
                => (e \notin spawned' /\ e \notin Occupied(grid'))
            /\ (e = <<0, 2>> /\ Occupied(grid) = {})
                => Occupied(grid') = {<<0, 2>>}
            /\ (e = <<0, 2>> /\ Occupied(grid) = {<<0, 2>>})
                => Occupied(grid') = {<<1, 2>>}]_vars

\* the second pass of the scenario has run
C3_Witness ==
    /\ sand_spawner = Some(<<0, 2>>)
    /\ moves = {[from |-> <<0, 2>>, to |-> <<1, 2>>]}
    /\ Occupied(grid) = {<<1, 2>>}

\* C4: once a Break is in the event channel the simulation thread stops, the
\* render sender is dropped and the render loop exits; the drain that
\* consumes the Break is the step that stops the loop.
C4_TerminationOnQuit ==
    /\ (\E i \in DOMAIN eventQ : eventQ[i] = Break)
          ~> (~SimRunning /\ ~RenderTxAlive /\ mainpc = "exited")
    /\ [][(ConsumeStep /\ Head(eventQ) = Break) => pc' = "stopped"]_vars

\* the loop was stopped by a Break and the render loop has exited
C4_Witness ==
    /\ pc = "stopped"
    /\ drained # <<>> /\ drained[Len(drained)] = Break
    /\ mainpc = "exited"

\* C5: the simulation thread stops running only in a step that consumes a
\* Break, and once it has stopped it never runs again.
C5_OnlyQuitStops ==
    [][/\ (SimRunning /\ ~SimRunning')
            => (ConsumeStep /\ Head(eventQ) = Break)
       /\ ~SimRunning => (~SimRunning' /\ grid' = grid)]_vars

\* C6: a drain that finds the event channel empty with the input thread gone
\* stops the loop as a Break does: no further update pass runs.
C6_DisconnectStops ==
    [][(SimRunning /\ ~inputAlive /\ eventQ = <<>>)
            => (~PassStep /\ (pc' # pc => pc' = "stopped"))]_vars

\* C7: a consumed Click activates an inactive emitter at the clicked cell and
\* deactivates an active one; a consumed Moved relocates an active emitter
\* and leaves an inactive one inactive.
C7_EmitterToggle ==
    [][ConsumeStep =>
        LET s == Head(eventQ)
        IN  /\ (s.kind = "Click" /\ sand_spawner = None)
                => sand_spawner' = Some(<<s.row, s.col>>)
            /\ (s.kind = "Click" /\ sand_spawner # None)
                => sand_spawner' = None
            /\ (s.kind = "Moved" /\ sand_spawner # None)
                => sand_spawner' = Some(<<s.row, s.col>>)
            /\ (s.kind = "Moved" /\ sand_spawner = None)
                => sand_spawner' = None]_vars

\* a Click on an active emitter at another coordinate has switched it off
C7_Witness ==
    /\ Len(drained) = 2
    /\ drained[1].kind = "Click" /\ drained[2].kind = "Click"
    /\ <<drained[1].row, drained[1].col>> # <<drained[2].row, drained[2].col>>
    /\ spawner0 = None /\ sand_spawner = None

\* C8: a particle in either of the bottom two rows is not moved by any pass:
\* it is the source of no move and its cell is still occupied after the pass.
C8_SettleAtFloor ==
    [][PassStep =>
        \A p \in Occupied(grid) :
            p[1] >= nrows - 2 =>
                /\ p \in Occupied(grid')
                /\ \A m \in moves' : m.from # p]_vars

\* a particle of the second-last row, over an empty cell, has stayed through
\* a pass
C8_Witness ==
    /\ spawned = {}
    /\ \E p \in Occupied(grid) :
          p[1] = nrows - 2 /\ Below(p) \notin Occupied(grid)

\* C9: a drain consumes the head of the event channel and leaves the rest in
\* order, a send appends at the tail, the drain ends only on an empty
\* channel, and the emitter the update pass spawns at is the result of
\* applying the drained signals oldest first.
C9_SignalOrdering ==
    [][/\ Len(eventQ') < Len(eventQ)
            => (eventQ' = Tail(eventQ) /\ drained' = Append(drained, Head(eventQ)))
       /\ Len(eventQ') > Len(eventQ)
            => SubSeq(eventQ', 1, Len(eventQ)) = eventQ
       /\ PassStep
            => /\ eventQ = <<>>
               /\ sand_spawner = ApplyAll(spawner0, drained)
               /\ \A c \in spawned' : Some(c) = ApplyAll(spawner0, drained)]_vars

\* a drain consumed two signals whose order decides the emitter
C9_Witness ==
    /\ eventQ = <<>> /\ SimRunning
    /\ Len(drained) = 2
    /\ ApplyAll(spawner0, drained) # ApplyAll(spawner0, <<drained[2], drained[1]>>)

\* C10: consuming a Resize leaves the grid dimensions, the grid contents and
\* the emitter as they were and leaves the simulation thread running.
C10_ResizeIgnored ==
    [][(ConsumeStep /\ Head(eventQ).kind = "Resize") =>
        /\ nrows' = nrows /\ ncols' = ncols
        /\ grid' = grid
        /\ sand_spawner' = sand_spawner
        /\ SimRunning']_vars
\* C11: the render channel grows only by one snapshot at a time, the snapshot
\* of the grid as the pass and the mark clearing left it; every change of the
\* grid comes with such a snapshot; and the main thread takes the snapshots
\* oldest first, one at a time, and draws the one it took.
C11_SnapshotsOrdered ==
    [][/\ Len(renderQ') > Len(renderQ)
            => /\ renderQ' = Append(renderQ, RenderInput(grid'))
               /\ Marked(grid') = {}
       /\ (grid' # grid \/ moves' # moves \/ spawned' # spawned)
            => Len(renderQ') = Len(renderQ) + 1
       /\ Len(renderQ') < Len(renderQ)
            => (renderQ' = Tail(renderQ) /\ drawn' = Head(renderQ))
       /\ Len(renderQ') = Len(renderQ)
            => (renderQ' = renderQ /\ drawn' = drawn)]_vars

\* one snapshot is drawn and two different ones wait in the channel
C11_Witness ==
    /\ drawn # <<>>
    /\ Len(renderQ) = 2
    /\ renderQ[1] # renderQ[2] /\ drawn # renderQ[1]

\* C12: between the ticks no cell of the grid is marked: the marks a pass
\* sets are gone when the tick ends, when the next pass starts and when the
\* snapshot is published.
C12_MarksCleared == Marked(grid) = {}

\* a pass that moved a particle and spawned another has ended
C12_Witness == moves # {} /\ spawned # {} /\ Marked(grid) = {}

\* C13: every cell an update pass writes, as the source or the target of a
\* move or as the spawn cell, is a cell of the grid.
C13_WritesInBounds ==
    /\ \A m \in moves : m.from \in DOMAIN grid /\ m.to \in DOMAIN grid
    /\ spawned \subseteq DOMAIN grid

\* a pass with the emitter outside the grid has moved a particle of column 0
C13_Witness ==
    /\ spawner0 = Some(<<nrows, ncols>>)
    /\ \E m \in moves : m.from[2] = 0

\* C14: a pass over a grid without a particle, with no emitter active, leaves
\* every cell as it was.
C14_NoOpTick ==
    [][(PassStep /\ Occupied(grid) = {} /\ sand_spawner = None)
            => grid' = grid]_vars

\* a snapshot of an empty grid was published by a tick without an emitter
C14_Witness ==
    /\ renderQ # <<>>
    /\ spawner0 = None
    /\ Occupied(grid) = {} /\ moves = {} /\ spawned = {}

\* C15: the spawn rule is guarded by the floor rule: no particle is ever
\* spawned in the bottom two rows of the grid.
C15_SpawnGuardedByFloor ==
    \A c \in spawned : c[1] < nrows - 2

\* C15 (amended): the spawn rule carries no floor guard: a pass with the
\* emitter on an empty cell of the bottom two rows spawns a particle there.
C15_SpawnIgnoresFloor ==
    [][\A e \in DOMAIN grid :
          (/\ PassStep
           /\ sand_spawner = Some(e)
           /\ e[1] >= nrows - 2
           /\ e \notin Occupied(grid))
              => (e \in spawned' /\ e \in Occupied(grid'))]_vars

\* a pass has spawned a particle in one of the bottom two rows
C15_Witness ==
    \E c \in spawned : c[1] >= nrows - 2 /\ c \in Occupied(grid)

\* C16: edge policy. A particle of column 0 above the frozen rows, with the
\* cell below occupied and below-right empty, slides right-down; a particle of
\* the rightmost column, with the cell below occupied and below-left empty
\* when it is processed, slides left-down.
C16_EdgeSlides ==
    [][PassStep =>
        \A r \in 0..(nrows - 4) :
            /\ (/\ <<r, 0>> \in Occupied(grid)
                /\ <<r + 1, 0>> \in Occupied(grid)
                /\ <<r + 1, 1>> \notin Occupied(grid))
                   => [from |-> <<r, 0>>, to |-> <<r + 1, 1>>] \in moves'
            /\ (/\ <<r, ncols - 1>> \in Occupied(grid)
                /\ <<r + 1, ncols - 1>> \in Occupied(grid)
                /\ <<r + 1, ncols - 2>> \notin Occupied(grid)
                /\ \A m \in moves' : m.to # <<r + 1, ncols - 2>>)
                   => [from |-> <<r, ncols - 1>>,
                       to |-> <<r + 1, ncols - 2>>] \in moves']_vars

\* the cell p holds a particle when the pass in progress reaches it: it held
\* one when the pass began, or a move of the pass brought one
OccAtScan(p) ==
    p \in Occupied(grid) \/ \E m \in moves' : m.to = p

\* the cell q of the row below holds a particle when the pass reaches column
\* c of row r: it held one when the pass began, or an earlier cell of row r
\* moved into it
OccBelowAtScan(q, r, c) ==
    \/ q \in Occupied(grid)
    \/ \E m \in moves' : m.to = q /\ m.from[1] = r /\ m.from[2] < c

\* the displacement table over the rows r < nrows - frozen, for the passes
\* the program makes and the cells of src that hold a particle when reached
TableInPass(frozen, src) ==
    PassStep =>
      \A p \in src :
        LET r == p[1]
            c == p[2]
            free == {t \in {<<r + 1, c - 1>>, <<r + 1, c + 1>>} :
                        ~OccBelowAtScan(t, r, c)}
            from_p == {m \in moves' : m.from = p}
        IN  (/\ r < nrows - frozen
             /\ c > 0 /\ c < ncols - 1
             /\ OccAtScan(p)
             /\ OccBelowAtScan(<<r + 1, c>>, r, c))
               => IF free = {}
                  THEN from_p = {} /\ p \in Occupied(grid')
                  ELSE /\ \E t \in free : from_p = {[from |-> p, to |-> t]}
                       /\ p \notin Occupied(grid')

\* the displacement table as the outcomes of processing one cell of the
\* current grid: every empty diagonal is a possible target, and an outcome
\* differs from the grid by the cleared source and the occupied target alone
TableOfOutcomes ==
    \A p \in Occupied(grid) :
      LET r == p[1]
          c == p[2]
          st == PassState(grid, {}, {})
          free == {<<r + 1, c - 1>>, <<r + 1, c + 1>>} \ Occupied(grid)
          outs == UpdateCell(st, sand_spawner, nrows, ncols, r, c)
      IN  (/\ r < nrows - 3
           /\ c > 0 /\ c < ncols - 1
           /\ <<r + 1, c>> \in Occupied(grid))
             => IF free = {}
                THEN outs = {st}
                ELSE outs = {PassState(
                               [q \in DOMAIN grid |->
                                   IF q = p THEN <<FALSE, TRUE>>
                                   ELSE IF q = t THEN <<TRUE, TRUE>>
                                   ELSE grid[q]],
                               {[from |-> p, to |-> t]}, {}) : t \in free}

\* C17: the diagonal displacement table, for the rows above the bottom two:
\* a cell of an interior column, occupied since the pass began, whose cell
\* below is occupied when it is processed moves to an empty diagonal, and
\* stays if there is none.
C17_TableAboveBottomTwo ==
    [][TableInPass(2, Occupied(grid))]_vars

\* C17 (amended): the diagonal displacement table holds for the rows above
\* the bottom three: both diagonals empty, either is a possible target and
\* exactly one is taken; one empty, that one is taken; none, the particle
\* stays; a move clears the source and occupies the target alone.
C17_DisplacementTable ==
    [][TableOfOutcomes /\ TableInPass(3, DOMAIN grid)]_vars

\* the last pass made a diagonal move whose target still holds the particle,
\* and the grid holds a particle that the table keeps in place, above three
\* occupied cells
C17_Witness ==
    /\ \E m \in moves : m.to[2] # m.from[2] /\ m.to \in Occupied(grid)
    /\ \E p \in Occupied(grid) :
          /\ p[1] < nrows - 3 /\ p[2] > 0 /\ p[2] < ncols - 1
          /\ {<<p[1] + 1, p[2] + d>> : d \in {-1, 0, 1}} \subseteq Occupied(grid)

\* C18: no move of a pass starts below row nrows - 4 or ends below row
\* nrows - 3, and a cell of the last two rows that a step fills is the cell
\* of the emitter, filled by the spawn rule.
C18_LastRowsOnlySpawned ==
    [][/\ \A m \in moves' : m.from[1] < nrows - 3 /\ m.to[1] <= nrows - 3
       /\ \A p \in Occupied(grid') \ Occupied(grid) :
              p[1] >= nrows - 2 => (p \in spawned' /\ sand_spawner = Some(p))]_vars

\* the last pass moved a particle into row nrows - 3, above a particle that
\* was spawned in the last two rows
C18_Witness ==
    \E m \in moves :
        /\ m.to[1] = nrows - 3
        /\ <<m.to[1] + 1, m.to[2]>> \in Occupied(grid)

\* no update pass changes a cell of the grid
Quiescent ==
    \A st \in UpdateRule(grid, sand_spawner, nrows, ncols) :
        ~st.panic /\ ClearedMarks(st.g) = grid

\* C19: every move of a pass ends in the row below its source, in the same
\* or a neighbouring column; and once the emitter is inactive, then unless it
\* is activated again the grid reaches a state that no tick changes.
C19_Quiescence ==
    /\ [][\A m \in moves' :
            /\ m.to[1] = m.from[1] + 1
            /\ m.to[2] \in {m.from[2] - 1, m.from[2], m.from[2] + 1}]_vars
    /\ (sand_spawner = None) ~> (sand_spawner # None \/ Quiescent)

\* the emitter is inactive, particles have fallen to row nrows - 3 and slid to
\* its sides, and the last pass, made without an emitter, moved nothing
C19_Witness ==
    /\ sand_spawner = None /\ spawner0 = None
    /\ renderQ # <<>> /\ moves = {}
    /\ \E p, q \in Occupied(grid) :
          p[1] = nrows - 3 /\ q[1] = nrows - 3 /\ p[2] # q[2]
    /\ Quiescent

\* C20: on a grid of fewer than 3 rows the update pass completes without
\* failure (the simulation thread panics on a Resize signal alone) and moves
\* no particle.
C20_SmallGridFrozen ==
    nrows < FrozenRows =>
        /\ moves = {}
        /\ pc = "panicked" =>
              (drained # <<>> /\ drained[Len(drained)].kind = "Resize")

====
